---- MODULE Spec2Model ----
(***************************************************************************)
(* Model of the two components of Adrixan/copilot-instructions that carry *)
(* logic: the user registration service (examples/backend/python/         *)
(* user_service.py, with the SQLAlchemy repository of the integration     *)
(* tests as its collaborator) and the JWT token manager with its routes   *)
(* (examples/production/jwt_auth_fastapi.py). A third part follows the  *)
(* integration test whose worker threads call save on one repository, and *)
(* with it one SQLAlchemy session, at the same time.                      *)
(*                                                                         *)
(* A Python str is a sequence of characters; a character is a one-letter  *)
(* TLA+ string ("U+00C9" and the like stand for one non-ASCII character). *)
(***************************************************************************)
EXTENDS Integers, Sequences, FiniteSets, TLC

VARIABLES
    users,      \* rows of the users table (the repository's state)
    nextId,     \* next value of the users.id sequence
    pc,         \* per caller: position inside the service method it runs
    args,       \* per caller: the method and the arguments of the running call
    trace,      \* per caller: collaborator invocations of the running call, in order
    result,     \* per caller: outcome of the running call
    calls,      \* number of service calls begun so far
    clock,      \* datetime.utcnow(), in whole seconds
    held,       \* the tokens the client holds, and whether it has logged out with them
    resp,       \* the last answer of the token service
    session,    \* the SQLAlchemy session one repository object is built on
    futures     \* per submitted task of the thread pool: the outcome of its save

vars == <<users, nextId, pc, args, trace, result, calls, clock, held, resp,
          session, futures>>

----------------------------------------------------------------------------
(* Bounds of the model *)

\* concurrent callers of the service
NumCallers == 2
\* service calls begun in one run
MaxCalls == 2
\* longest free suffix appended to a padded username or password
MaxTail == 2
\* how many single-character edits are applied to a base email
MaxEdits == 1
\* how far around each lifetime boundary the clock is sampled, in seconds
MaxSkew == 1
\* tasks submitted to the thread pool of the concurrent-save test
MaxTasks == 3

Callers == 1..NumCallers

----------------------------------------------------------------------------
(* Characters and character classes *)

AsciiLower == {"a","b","c","d","e","f","g","h","i","j","k","l","m",
               "n","o","p","q","r","s","t","u","v","w","x","y","z"}
AsciiUpper == {"A","B","C","D","E","F","G","H","I","J","K","L","M",
               "N","O","P","Q","R","S","T","U","V","W","X","Y","Z"}
AsciiDigit == {"0","1","2","3","4","5","6","7","8","9"}

\* str.isupper / str.islower / str.isdigit of one character: Unicode aware
UpperChars == AsciiUpper \cup {"U+00C9"}
LowerChars == AsciiLower \cup {"U+00E9"}
DigitChars == AsciiDigit \cup {"U+0663"}
IsUpper(ch) == ch \in UpperChars
IsLower(ch) == ch \in LowerChars
IsDigit(ch) == ch \in DigitChars

\* the regex classes, which are ASCII only
WordClass == AsciiLower \cup AsciiUpper \cup AsciiDigit \cup {"_"}
LocalClass == AsciiLower \cup AsciiUpper \cup AsciiDigit \cup {".", "_", "%", "+", "-"}
DomainClass == AsciiLower \cup AsciiUpper \cup AsciiDigit \cup {".", "-"}
LetterClass == AsciiLower \cup AsciiUpper
InWordClass(ch) == ch \in WordClass
InLocalClass(ch) == ch \in LocalClass
InDomainClass(ch) == ch \in DomainClass
InLetterClass(ch) == ch \in LetterClass

\* Python's `$` (no re.MULTILINE) once k characters of s are consumed: at the
\* end of the string, or just before a newline that ends the string
DollarMatches(s, k) ==
    \/ k = Len(s)
    \/ (k = Len(s) - 1 /\ s[Len(s)] = "\n")

USERNAME_MIN == 3
USERNAME_MAX == 30
PASSWORD_MIN == 12
TLD_MIN == 2

\* USERNAME_REGEX.match(s): ^[a-zA-Z0-9_]{3,30}$
USERNAME_REGEX(s) ==
    \E n \in USERNAME_MIN..USERNAME_MAX :
        /\ n <= Len(s)
        /\ \A i \in 1..n : InWordClass(s[i])
        /\ DollarMatches(s, n)

\* EMAIL_REGEX.match(s): ^[a-zA-Z0-9._%+-]+@[a-zA-Z0-9.-]+\.[a-zA-Z]{2,}$
EMAIL_REGEX(s) ==
    \E at \in 2..Len(s) : \E dot \in (at + 2)..Len(s) : \E end \in (dot + TLD_MIN)..Len(s) :
        /\ \A i \in 1..(at - 1) : InLocalClass(s[i])
        /\ s[at] = "@"
        /\ \A i \in (at + 1)..(dot - 1) : InDomainClass(s[i])
        /\ s[dot] = "."
        /\ \A i \in (dot + 1)..end : InLetterClass(s[i])
        /\ DollarMatches(s, end)

----------------------------------------------------------------------------
(* Exceptions and validation *)

Ok == [type |-> "ok", msg |-> ""]
Exc(t, m) == [type |-> t, msg |-> m]

\* _validate_username
ValidateUsername(username) ==
    IF username = <<>> THEN Exc("InvalidUsernameError", "Username is required")
    ELSE IF ~USERNAME_REGEX(username)
         THEN Exc("InvalidUsernameError",
                  "Username must be 3-30 characters and contain only letters, numbers, and underscores")
         ELSE Ok

\* _validate_email
ValidateEmail(email) ==
    IF email = <<>> THEN Exc("InvalidEmailError", "Email is required")
    ELSE IF ~EMAIL_REGEX(email)
         THEN Exc("InvalidEmailError", "Invalid email format: {email}")
         ELSE Ok

\* _validate_password mutated: the digit rule is missing
ValidatePassword_NoDigitRule(password) ==
    IF Len(password) < PASSWORD_MIN
    THEN Exc("WeakPasswordError", "Password must be at least 12 characters")
    ELSE IF ~\E i \in 1..Len(password) : IsUpper(password[i])
    THEN Exc("WeakPasswordError", "Password must contain at least one uppercase letter")
    ELSE IF ~\E i \in 1..Len(password) : IsLower(password[i])
    THEN Exc("WeakPasswordError", "Password must contain at least one lowercase letter")
    ELSE Ok

\* _validate_password mutated: the digit rule is tested before the letter rules
ValidatePassword_DigitFirst(password) ==
    IF Len(password) < PASSWORD_MIN
    THEN Exc("WeakPasswordError", "Password must be at least 12 characters")
    ELSE IF ~\E i \in 1..Len(password) : IsDigit(password[i])
    THEN Exc("WeakPasswordError", "Password must contain at least one number")
    ELSE IF ~\E i \in 1..Len(password) : IsUpper(password[i])
    THEN Exc("WeakPasswordError", "Password must contain at least one uppercase letter")
    ELSE IF ~\E i \in 1..Len(password) : IsLower(password[i])
    THEN Exc("WeakPasswordError", "Password must contain at least one lowercase letter")
    ELSE Ok

\* _validate_password
ValidatePassword(password) ==
    IF Len(password) < PASSWORD_MIN
    THEN Exc("WeakPasswordError", "Password must be at least 12 characters")
    ELSE IF ~\E i \in 1..Len(password) : IsUpper(password[i])
    THEN Exc("WeakPasswordError", "Password must contain at least one uppercase letter")
    ELSE IF ~\E i \in 1..Len(password) : IsLower(password[i])
    THEN Exc("WeakPasswordError", "Password must contain at least one lowercase letter")
    ELSE IF ~\E i \in 1..Len(password) : IsDigit(password[i])
    THEN Exc("WeakPasswordError", "Password must contain at least one number")
    ELSE Ok

\* the validation prefix of create_user mutated: email is validated first
ValidateInputs_EmailFirst(username, email, password) ==
    IF ValidateEmail(email) # Ok THEN ValidateEmail(email)
    ELSE IF ValidateUsername(username) # Ok THEN ValidateUsername(username)
    ELSE ValidatePassword(password)

\* the validation prefix of create_user: the first validator that raises decides
ValidateInputs(username, email, password) ==
    IF ValidateUsername(username) # Ok THEN ValidateUsername(username)
    ELSE IF ValidateEmail(email) # Ok THEN ValidateEmail(email)
    ELSE ValidatePassword(password)

----------------------------------------------------------------------------
(* Collaborators: the password hasher and the SQLAlchemy repository *)

None == [none |-> TRUE]
Pending == [kind |-> "pending"]
Return(v) == [kind |-> "return", value |-> v]
Raise(e) == [kind |-> "raise", exc |-> e]

\* salts the hasher may draw (bcrypt.gensalt); the test hasher always uses one
Salts == {"s1", "s2"}

\* PasswordHasher.hash: an opaque value that depends on salt and plaintext
Hash(salt, password) == <<"hashed_", salt>> \o password

USERNAME_COL_LEN == 30
EMAIL_COL_LEN == 255

\* the UserDTO built from a row of the users table
ToDTO(row) == [id |-> row.id, username |-> row.username, email |-> row.email,
               created_at |-> row.created_at]

\* find_by_email mutated: the query never matches
RepoFindByEmail_Misses(rows, email) == None

\* SQLAlchemyUserRepository.find_by_email
RepoFindByEmail(rows, email) ==
    IF \E r \in rows : r.email = email
    THEN ToDTO(CHOOSE r \in rows : r.email = email)
    ELSE None

\* SQLAlchemyUserRepository.find_by_id
RepoFindById(rows, user_id) ==
    IF \E r \in rows : r.id = user_id
    THEN ToDTO(CHOOSE r \in rows : r.id = user_id)
    ELSE None

\* the INSERT mutated: the table has no unique constraint on email
RepoSaveError_UsernameOnly(rows, username, email) ==
    IF Len(username) > USERNAME_COL_LEN \/ Len(email) > EMAIL_COL_LEN
    THEN Exc("DataError", "value too long for type character varying")
    ELSE IF \E r \in rows : r.username = username
    THEN Exc("IntegrityError", "duplicate key value violates unique constraint")
    ELSE Ok

\* the INSERT mutated: the table has no unique constraint at all
RepoSaveError_NoConstraint(rows, username, email) ==
    IF Len(username) > USERNAME_COL_LEN \/ Len(email) > EMAIL_COL_LEN
    THEN Exc("DataError", "value too long for type character varying")
    ELSE Ok

\* what session.commit() raises for the INSERT of save, or Ok
RepoSaveError(rows, username, email) ==
    IF Len(username) > USERNAME_COL_LEN \/ Len(email) > EMAIL_COL_LEN
    THEN Exc("DataError", "value too long for type character varying")
    ELSE IF \E r \in rows : r.username = username \/ r.email = email
    THEN Exc("IntegrityError", "duplicate key value violates unique constraint")
    ELSE Ok

\* the row save inserts
NewRow(id, username, email, password_hash, now) ==
    [id |-> id, username |-> username, email |-> email,
     password_hash |-> password_hash, created_at |-> now]

\* what a collaborator raises when it is unavailable
Unavailable == Exc("OperationalError", "collaborator unavailable")

Invocation(fn, arg, ret) == [fn |-> fn, arg |-> arg, ret |-> ret]

----------------------------------------------------------------------------
(* UserService *)

NoCall == [op |-> "none"]

Finish(c, r) ==
    /\ pc' = [pc EXCEPT ![c] = "done"]
    /\ result' = [result EXCEPT ![c] = r]

\* a caller can begin a call when it runs none, while the run has calls left
Free(c) == pc[c] \in {"idle", "done"} /\ calls < MaxCalls

Goto(c, label) ==
    /\ pc' = [pc EXCEPT ![c] = label]
    /\ UNCHANGED result

Invoke(c, fn, arg, ret) == trace' = [trace EXCEPT ![c] = Append(@, Invocation(fn, arg, ret))]

\* a caller enters create_user(username, email, password)
CallCreateUser(c, username, email, password) ==
    /\ Free(c)
    /\ pc' = [pc EXCEPT ![c] = "validate"]
    /\ args' = [args EXCEPT ![c] = [op |-> "create_user", username |-> username,
                                    email |-> email, password |-> password]]
    /\ trace' = [trace EXCEPT ![c] = <<>>]
    /\ result' = [result EXCEPT ![c] = Pending]
    /\ calls' = calls + 1
    /\ UNCHANGED <<session, futures, users, nextId, clock, held, resp>>

\* create_user mutated: the existence lookup runs before the inputs are validated
CreateUser_Validate_LookupFirst(c) ==
    /\ pc[c] = "validate"
    /\ LET v == ValidateInputs(args[c].username, args[c].email, args[c].password)
       IN /\ Invoke(c, "find_by_email", <<args[c].email>>,
                    Return(RepoFindByEmail(users, args[c].email)))
          /\ IF v = Ok THEN Goto(c, "hash") ELSE Finish(c, Raise(v))
    /\ UNCHANGED <<session, futures, users, nextId, args, calls, clock, held, resp>>

\* create_user, the three validations: the first failure is raised
CreateUser_Validate(c) ==
    /\ pc[c] = "validate"
    /\ LET v == ValidateInputs(args[c].username, args[c].email, args[c].password)
       IN IF v = Ok THEN Goto(c, "find_by_email") ELSE Finish(c, Raise(v))
    /\ UNCHANGED <<session, futures, users, nextId, args, trace, calls, clock, held, resp>>

\* create_user mutated: the record found is ignored
CreateUser_FindByEmail_NoCheck(c) ==
    /\ pc[c] = "find_by_email"
    /\ Invoke(c, "find_by_email", <<args[c].email>>,
              Return(RepoFindByEmail(users, args[c].email)))
    /\ Goto(c, "hash")
    /\ UNCHANGED <<session, futures, users, nextId, args, calls, clock, held, resp>>

\* create_user mutated: a stored username counts as an existing user too
CreateUser_FindByEmail_ChecksUsername(c) ==
    /\ pc[c] = "find_by_email"
    /\ \/ LET existing_user == RepoFindByEmail(users, args[c].email)
          IN /\ Invoke(c, "find_by_email", <<args[c].email>>, Return(existing_user))
             /\ IF existing_user # None \/ \E r \in users : r.username = args[c].username
                THEN Finish(c, Raise(Exc("UserAlreadyExistsError",
                                         "User with email {email} already exists")))
                ELSE Goto(c, "hash")
       \/ /\ Invoke(c, "find_by_email", <<args[c].email>>, Raise(Unavailable))
          /\ Finish(c, Raise(Unavailable))
    /\ UNCHANGED <<session, futures, users, nextId, args, calls, clock, held, resp>>

\* create_user, the existence check: find_by_email, then UserAlreadyExistsError
CreateUser_FindByEmail(c) ==
    /\ pc[c] = "find_by_email"
    /\ \/ LET existing_user == RepoFindByEmail(users, args[c].email)
          IN /\ Invoke(c, "find_by_email", <<args[c].email>>, Return(existing_user))
             /\ IF existing_user # None
                THEN Finish(c, Raise(Exc("UserAlreadyExistsError",
                                         "User with email {email} already exists")))
                ELSE Goto(c, "hash")
       \/ /\ Invoke(c, "find_by_email", <<args[c].email>>, Raise(Unavailable))
          /\ Finish(c, Raise(Unavailable))
    /\ UNCHANGED <<session, futures, users, nextId, args, calls, clock, held, resp>>

\* create_user, the hashing step
CreateUser_Hash(c) ==
    /\ pc[c] = "hash"
    /\ \/ \E salt \in Salts :
            /\ Invoke(c, "hash", <<args[c].password>>,
                      Return(Hash(salt, args[c].password)))
            /\ Goto(c, "save")
       \/ /\ Invoke(c, "hash", <<args[c].password>>, Raise(Unavailable))
          /\ Finish(c, Raise(Unavailable))
    /\ UNCHANGED <<session, futures, users, nextId, args, calls, clock, held, resp>>

\* create_user mutated: the plaintext is handed to save
PasswordHashOf_Plaintext(c) == args[c].password

\* the password_hash local of create_user: what hash returned
PasswordHashOf(c) == trace[c][Len(trace[c])].ret.value

\* create_user mutated: a failure of save is reported as UserAlreadyExistsError
CreateUser_Save_Translates(c) ==
    /\ pc[c] = "save"
    /\ LET username == args[c].username
           email == args[c].email
           password_hash == PasswordHashOf(c)
           err == RepoSaveError(users, username, email)
           row == NewRow(nextId, username, email, password_hash, clock)
       IN \/ /\ err = Ok
             /\ users' = users \cup {row}
             /\ nextId' = nextId + 1
             /\ Invoke(c, "save", <<username, email, password_hash>>, Return(ToDTO(row)))
             /\ Finish(c, Return(ToDTO(row)))
          \/ /\ err # Ok
             /\ UNCHANGED <<users, nextId>>
             /\ Invoke(c, "save", <<username, email, password_hash>>, Raise(err))
             /\ Finish(c, Raise(Exc("UserAlreadyExistsError",
                                     "User with email {email} already exists")))
          \/ /\ UNCHANGED <<users, nextId>>
             /\ Invoke(c, "save", <<username, email, password_hash>>, Raise(Unavailable))
             /\ Finish(c, Raise(Unavailable))
    /\ UNCHANGED <<args, calls, clock, held, resp, session, futures>>

\* create_user, the save step and the return of its record
CreateUser_Save(c) ==
    /\ pc[c] = "save"
    /\ LET username == args[c].username
           email == args[c].email
           password_hash == PasswordHashOf(c)
           err == RepoSaveError(users, username, email)
           row == NewRow(nextId, username, email, password_hash, clock)
       IN \/ /\ err = Ok
             /\ users' = users \cup {row}
             /\ nextId' = nextId + 1
             /\ Invoke(c, "save", <<username, email, password_hash>>, Return(ToDTO(row)))
             /\ Finish(c, Return(ToDTO(row)))
          \/ /\ err # Ok
             /\ UNCHANGED <<users, nextId>>
             /\ Invoke(c, "save", <<username, email, password_hash>>, Raise(err))
             /\ Finish(c, Raise(err))
          \/ /\ UNCHANGED <<users, nextId>>
             /\ Invoke(c, "save", <<username, email, password_hash>>, Raise(Unavailable))
             /\ Finish(c, Raise(Unavailable))
    /\ UNCHANGED <<args, calls, clock, held, resp, session, futures>>

\* a caller enters authenticate(email, password)
CallAuthenticate(c, email, password) ==
    /\ Free(c)
    /\ pc' = [pc EXCEPT ![c] = "auth_find"]
    /\ args' = [args EXCEPT ![c] = [op |-> "authenticate", email |-> email,
                                    password |-> password]]
    /\ trace' = [trace EXCEPT ![c] = <<>>]
    /\ result' = [result EXCEPT ![c] = Pending]
    /\ calls' = calls + 1
    /\ UNCHANGED <<session, futures, users, nextId, clock, held, resp>>

\* authenticate mutated: the record is withheld unless the password matches
\* the stored hash
Authenticate_VerifiesPassword(c) ==
    /\ pc[c] = "auth_find"
    /\ LET user == RepoFindByEmail(users, args[c].email)
           matches == \E r \in users : \E salt \in Salts :
                        /\ r.email = args[c].email
                        /\ r.password_hash = Hash(salt, args[c].password)
       IN /\ Invoke(c, "find_by_email", <<args[c].email>>, Return(user))
          /\ Finish(c, Return(IF matches THEN user ELSE None))
    /\ UNCHANGED <<session, futures, users, nextId, args, calls, clock, held, resp>>

\* authenticate mutated: the hasher is asked to verify the password, and the
\* record is returned when it matches
Authenticate_CallsVerify(c) ==
    /\ pc[c] = "auth_find"
    /\ \/ LET user == RepoFindByEmail(users, args[c].email)
              ok == \E r \in users : \E salt \in Salts :
                        /\ r.email = args[c].email
                        /\ r.password_hash = Hash(salt, args[c].password)
          IN /\ trace' = [trace EXCEPT ![c] =
                            <<Invocation("find_by_email", <<args[c].email>>, Return(user)),
                              Invocation("verify", <<args[c].password>>, Return(ok))>>]
             /\ Finish(c, Return(IF ok THEN user ELSE None))
       \/ /\ Invoke(c, "find_by_email", <<args[c].email>>, Raise(Unavailable))
          /\ Finish(c, Raise(Unavailable))
    /\ UNCHANGED <<session, futures, users, nextId, args, calls, clock, held, resp>>

\* authenticate: find_by_email, and its record (or None) is returned
Authenticate(c) ==
    /\ pc[c] = "auth_find"
    /\ \/ LET user == RepoFindByEmail(users, args[c].email)
          IN /\ Invoke(c, "find_by_email", <<args[c].email>>, Return(user))
             /\ Finish(c, Return(user))
       \/ /\ Invoke(c, "find_by_email", <<args[c].email>>, Raise(Unavailable))
          /\ Finish(c, Raise(Unavailable))
    /\ UNCHANGED <<session, futures, users, nextId, args, calls, clock, held, resp>>

\* a caller enters get_user(user_id)
CallGetUser(c, user_id) ==
    /\ Free(c)
    /\ pc' = [pc EXCEPT ![c] = "get_find"]
    /\ args' = [args EXCEPT ![c] = [op |-> "get_user", user_id |-> user_id]]
    /\ trace' = [trace EXCEPT ![c] = <<>>]
    /\ result' = [result EXCEPT ![c] = Pending]
    /\ calls' = calls + 1
    /\ UNCHANGED <<session, futures, users, nextId, clock, held, resp>>

\* get_user: whatever find_by_id gives
GetUser(c) ==
    /\ pc[c] = "get_find"
    /\ \/ LET user == RepoFindById(users, args[c].user_id)
          IN /\ Invoke(c, "find_by_id", <<args[c].user_id>>, Return(user))
             /\ Finish(c, Return(user))
       \/ /\ Invoke(c, "find_by_id", <<args[c].user_id>>, Raise(Unavailable))
          /\ Finish(c, Raise(Unavailable))
    /\ UNCHANGED <<session, futures, users, nextId, args, calls, clock, held, resp>>

----------------------------------------------------------------------------
(* Inputs *)

Pad(ch, n) == [i \in 1..n |-> ch]
Tails(chars, k) == UNION {[1..m -> chars] : m \in 0..k}

johndoe == <<"j","o","h","n","d","o","e">>
janedoe == <<"j","a","n","e","d","o","e">>
john_example_com == <<"j","o","h","n","@","e","x","a","m","p","l","e",".","c","o","m">>
jane_example_com == <<"j","a","n","e","@","e","x","a","m","p","l","e",".","c","o","m">>
notanemail == <<"n","o","t","a","n","e","m","a","i","l">>
missing_domain == <<"m","i","s","s","i","n","g","@","d","o","m","a","i","n">>
nodomain_com == <<"@","n","o","d","o","m","a","i","n",".","c","o","m">>
spaces_in_email == <<"s","p","a","c","e","s"," ","i","n","@","e","m","a","i","l",".","c","o","m">>
SecurePass123 == <<"S","e","c","u","r","e","P","a","s","s","1","2","3">>
short == <<"s","h","o","r","t">>

UsernameChars == {"a", "Z", "_", "-", " ", "\n", "U+00E9"}
PasswordPads == {"a", "A"}
PasswordChars == {"a", "A", "1", "-", "U+00C9", "U+0663"}
EmailChars == {"a", "1", "@", ".", "-", " ", "\n", "U+00E9"}

\* usernames of every length from 0 to two past the maximum, with free endings
WideUsernames ==
    {Pad("a", n) \o t : n \in 0..(USERNAME_MAX + 1), t \in Tails(UsernameChars, MaxTail)}
        \cup {johndoe, janedoe}

\* passwords of every length around the minimum, over every mix of classes
WidePasswords ==
    {Pad(ch, n) \o t : ch \in PasswordPads, n \in 0..(PASSWORD_MIN + 1),
                       t \in Tails(PasswordChars, MaxTail)}
        \cup {SecurePass123, short}

\* every string one edit (delete, insert, replace of one character) away from s
Edit1(s) ==
    {SubSeq(s, 1, i - 1) \o SubSeq(s, i + 1, Len(s)) : i \in 1..Len(s)}
        \cup {SubSeq(s, 1, i) \o <<ch>> \o SubSeq(s, i + 1, Len(s)) :
                i \in 0..Len(s), ch \in EmailChars}
        \cup {[s EXCEPT ![i] = ch] : i \in 1..Len(s), ch \in EmailChars}

RECURSIVE Edits(_, _)
Edits(S, k) == IF k = 0 THEN S ELSE Edits(S \cup UNION {Edit1(s) : s \in S}, k - 1)

\* emails: the shortest well-formed one and everything within MaxEdits of it,
\* and the addresses the unit tests use
WideEmails ==
    Edits({<<"a", "@", "b", ".", "c", "d">>}, MaxEdits)
        \cup {<<>>, john_example_com, jane_example_com, notanemail, missing_domain,
              nodomain_com, spaces_in_email, john_example_com \o <<"\n">>}

\* one acceptable and one unacceptable value of each argument
OtherUsernames == {johndoe, <<"a", "b">>}
OtherEmails == {john_example_com, jane_example_com, notanemail}
OtherPasswords == {SecurePass123, short}

\* the representative inputs of the concurrent service model
Usernames == {johndoe, janedoe}
Emails == {john_example_com, jane_example_com}
Passwords == {SecurePass123, short, <<>>}
UserIds == 1..2

\* the create_user calls made: every pairing of the acceptable names and
\* addresses, and calls with one or with every argument unacceptable
CreateRequests ==
    (Usernames \X Emails \X {SecurePass123})
        \cup {<<<<"a", "b">>, john_example_com, SecurePass123>>,
              <<johndoe, notanemail, SecurePass123>>,
              <<johndoe, john_example_com, short>>,
              <<<<"a", "b">>, notanemail, short>>}

----------------------------------------------------------------------------
(* JWT: configuration, the codec (PyJWT) and TokenManager *)

SECRET_KEY == "your-secret-key-change-in-production"
ALGORITHM == "HS256"
ACCESS_TOKEN_EXPIRE_MINUTES == 15
REFRESH_TOKEN_EXPIRE_DAYS == 7

\* timedelta(minutes=...) and timedelta(days=...) in seconds
AccessLifetime == ACCESS_TOKEN_EXPIRE_MINUTES * 60
RefreshLifetime == REFRESH_TOKEN_EXPIRE_DAYS * 24 * 60 * 60

\* the instants at which the clock is observed: around the start and around
\* each lifetime boundary
Instants ==
    {b + d : b \in {0, AccessLifetime, RefreshLifetime}, d \in (0 - MaxSkew)..MaxSkew}
        \cap Nat

\* a later reading of the clock inside one request: the same second or the next
Later(t) == {t} \cup ({t + 1} \cap Instants)

Subjects == {"user_123", "user_456"}

NoToken == [fmt |-> "none"]
Garbage == [fmt |-> "garbage"]

\* the HMAC of the header and the payload under a key
Sign(key, alg, payload) == [key |-> key, alg |-> alg, over |-> payload]

\* jwt.encode(payload, key, algorithm)
JwtEncode(payload, key, alg) ==
    [fmt |-> "jwt", header |-> [alg |-> alg, typ |-> "JWT"], payload |-> payload,
     sig |-> Sign(key, alg, payload)]

JwtOk(payload) == [ok |-> TRUE, payload |-> payload]
JwtError(e) == [ok |-> FALSE, error |-> e]

\* jwt.decode mutated: a token counts as expired one second before its exp
JwtDecode_ExpiresEarly(token, key, algorithms, now) ==
    IF token.fmt # "jwt" THEN JwtError("DecodeError")
    ELSE IF token.header.alg \notin algorithms THEN JwtError("InvalidAlgorithmError")
    ELSE IF token.sig # Sign(key, token.header.alg, token.payload)
         THEN JwtError("InvalidSignatureError")
    ELSE IF token.payload.exp - 1 <= now THEN JwtError("ExpiredSignatureError")
    ELSE JwtOk(token.payload)

\* jwt.decode mutated: exp is not verified
JwtDecode_NoExpiry(token, key, algorithms, now) ==
    IF token.fmt # "jwt" THEN JwtError("DecodeError")
    ELSE IF token.header.alg \notin algorithms THEN JwtError("InvalidAlgorithmError")
    ELSE IF token.sig # Sign(key, token.header.alg, token.payload)
         THEN JwtError("InvalidSignatureError")
    ELSE JwtOk(token.payload)

\* jwt.decode(token, key, algorithms=[...], options={"verify_exp": True}) at time
\* now: format, algorithm, signature, then exp
JwtDecode(token, key, algorithms, now) ==
    IF token.fmt # "jwt" THEN JwtError("DecodeError")
    ELSE IF token.header.alg \notin algorithms THEN JwtError("InvalidAlgorithmError")
    ELSE IF token.sig # Sign(key, token.header.alg, token.payload)
         THEN JwtError("InvalidSignatureError")
    ELSE IF token.payload.exp <= now THEN JwtError("ExpiredSignatureError")
    ELSE JwtOk(token.payload)

HTTPException(status_code, detail) ==
    [type |-> "HTTPException", status_code |-> status_code, detail |-> detail]
AttributeError == [type |-> "AttributeError", status_code |-> 500,
                   detail |-> "module 'jwt' has no attribute 'JWTError'"]

\* create_access_token mutated: the minutes are added as seconds
CreateAccessToken_MinutesAsSeconds(user_id, now1, now2) ==
    JwtEncode([sub |-> user_id, exp |-> now1 + ACCESS_TOKEN_EXPIRE_MINUTES, iat |-> now2,
               type |-> "access"], SECRET_KEY, ALGORITHM)

\* TokenManager.create_access_token, its two readings of the clock given
CreateAccessToken(user_id, now1, now2) ==
    JwtEncode([sub |-> user_id, exp |-> now1 + AccessLifetime, iat |-> now2,
               type |-> "access"], SECRET_KEY, ALGORITHM)

\* TokenManager.create_refresh_token, its two readings of the clock given
CreateRefreshToken(user_id, now1, now2) ==
    JwtEncode([sub |-> user_id, exp |-> now1 + RefreshLifetime, iat |-> now2,
               type |-> "refresh"], SECRET_KEY, ALGORITHM)

\* TokenManager.decode_token: the payload, or what is raised. PyJWT has no
\* JWTError, so naming it in the second except clause raises AttributeError.
DecodeToken(token, now) ==
    LET r == JwtDecode(token, SECRET_KEY, {ALGORITHM}, now)
    IN IF r.ok THEN Return(r.payload)
       ELSE IF r.error = "ExpiredSignatureError"
            THEN Raise(HTTPException(401, "Token has expired"))
            ELSE Raise(AttributeError)

\* get_current_user mutated: the type of the token is not looked at
GetCurrentUser_NoKindCheck(token, now) ==
    LET payload == DecodeToken(token, now)
    IN IF payload.kind = "raise" THEN payload
       ELSE Return(payload.value.sub)

\* get_current_user
GetCurrentUser(token, now) ==
    LET payload == DecodeToken(token, now)
    IN IF payload.kind = "raise" THEN payload
       ELSE IF payload.value.type # "access"
            THEN Raise(HTTPException(401, "Invalid token type"))
            ELSE Return(payload.value.sub)

TokenResponse(access_token, refresh_token) ==
    [access_token |-> access_token, refresh_token |-> refresh_token,
     token_type |-> "bearer", expires_in |-> ACCESS_TOKEN_EXPIRE_MINUTES * 60]

----------------------------------------------------------------------------
(* The token routes and the client that holds the tokens *)

NoResp == [op |-> "none"]

Answer(op, token, at, r) == [op |-> op, token |-> token, at |-> at, result |-> r]

\* what a client or an attacker can present: the tokens held, copies signed
\* with another key, copies with an altered payload under the old signature,
\* unsigned copies, and bytes that are no JWT
Forgeries(t) ==
    {JwtEncode(t.payload, "attacker-key", ALGORITHM),
     [t EXCEPT !.payload.exp = @ + RefreshLifetime],
     [t EXCEPT !.payload.type = IF @ = "access" THEN "refresh" ELSE "access"],
     [t EXCEPT !.header.alg = "none", !.sig = Sign("", "none", t.payload)]}

OwnTokens == {held.access_token, held.refresh_token} \ {NoToken}
Presentable == OwnTokens \cup UNION {Forgeries(t) : t \in OwnTokens} \cup {Garbage}

\* time passes
Tick ==
    /\ resp = NoResp
    /\ \E t \in Instants : t > clock /\ clock' = t
    /\ UNCHANGED <<session, futures, users, nextId, pc, args, trace, result, calls, held, resp>>

\* POST /auth/login: both tokens for the demo user
Login ==
    /\ resp = NoResp
    /\ \E t2 \in Later(clock) : \E t3 \in Later(t2) : \E t4 \in Later(t3) :
        /\ resp' = Answer("login", NoToken, clock,
                          Return(TokenResponse(CreateAccessToken("user_123", clock, t2),
                                               CreateRefreshToken("user_123", t3, t4))))
        /\ clock' = t4
    /\ UNCHANGED <<session, futures, users, nextId, pc, args, trace, result, calls, held>>

\* a direct call of TokenManager.create_access_token(user_id)
IssueAccessToken(user_id) ==
    /\ resp = NoResp
    /\ \E t2 \in Later(clock) :
        /\ resp' = Answer("create_access_token", NoToken, clock,
                          Return(CreateAccessToken(user_id, clock, t2)))
        /\ clock' = t2
    /\ UNCHANGED <<session, futures, users, nextId, pc, args, trace, result, calls, held>>

\* a direct call of TokenManager.create_refresh_token(user_id)
IssueRefreshToken(user_id) ==
    /\ resp = NoResp
    /\ \E t2 \in Later(clock) :
        /\ resp' = Answer("create_refresh_token", NoToken, clock,
                          Return(CreateRefreshToken(user_id, clock, t2)))
        /\ clock' = t2
    /\ UNCHANGED <<session, futures, users, nextId, pc, args, trace, result, calls, held>>

\* the protected routes mutated: the token the client has logged out with is
\* treated as revoked
Protected_ChecksRevocation(token) ==
    /\ resp = NoResp
    /\ resp' = Answer("get_current_user", token, clock,
                      IF held.logged_out /\ token = held.access_token
                      THEN Raise(HTTPException(401, "Token has been revoked"))
                      ELSE GetCurrentUser(token, clock))
    /\ UNCHANGED <<session, futures, users, nextId, pc, args, trace, result, calls, clock, held>>

\* GET /protected and GET /admin: the get_current_user dependency
Protected(token) ==
    /\ resp = NoResp
    /\ resp' = Answer("get_current_user", token, clock, GetCurrentUser(token, clock))
    /\ UNCHANGED <<session, futures, users, nextId, pc, args, trace, result, calls, clock, held>>

\* POST /auth/logout: get_current_user, then a message; nothing is revoked
Logout(token) ==
    /\ resp = NoResp
    /\ LET user_id == GetCurrentUser(token, clock)
       IN resp' = Answer("logout", token, clock,
                         IF user_id.kind = "raise" THEN user_id
                         ELSE Return("Successfully logged out"))
    /\ UNCHANGED <<session, futures, users, nextId, pc, args, trace, result, calls, clock, held>>

\* POST /auth/refresh mutated: the refresh token is rotated
Refresh_Rotates(token) ==
    /\ resp = NoResp
    /\ LET payload == DecodeToken(token, clock)
       IN IF payload.kind = "raise"
          THEN resp' = Answer("refresh", token, clock, payload) /\ UNCHANGED clock
          ELSE IF payload.value.type # "refresh"
          THEN /\ resp' = Answer("refresh", token, clock,
                                 Raise(HTTPException(401, "Invalid token type")))
               /\ UNCHANGED clock
          ELSE \E t1 \in Later(clock) : \E t2 \in Later(t1) :
                /\ resp' = Answer("refresh", token, clock,
                                  Return(TokenResponse(
                                      CreateAccessToken(payload.value.sub, t1, t2),
                                      CreateRefreshToken(payload.value.sub, t1, t2))))
                /\ clock' = t2
    /\ UNCHANGED <<session, futures, users, nextId, pc, args, trace, result, calls, held>>

\* POST /auth/refresh
Refresh(token) ==
    /\ resp = NoResp
    /\ LET payload == DecodeToken(token, clock)
       IN IF payload.kind = "raise"
          THEN resp' = Answer("refresh", token, clock, payload) /\ UNCHANGED clock
          ELSE IF payload.value.type # "refresh"
          THEN /\ resp' = Answer("refresh", token, clock,
                                 Raise(HTTPException(401, "Invalid token type")))
               /\ UNCHANGED clock
          ELSE \E t1 \in Later(clock) : \E t2 \in Later(t1) :
                /\ resp' = Answer("refresh", token, clock,
                                  Return(TokenResponse(
                                      CreateAccessToken(payload.value.sub, t1, t2), token)))
                /\ clock' = t2
    /\ UNCHANGED <<session, futures, users, nextId, pc, args, trace, result, calls, held>>

\* the client takes the answer and keeps the tokens it carries
Deliver ==
    /\ resp # NoResp
    /\ held' = IF resp.result.kind # "return" THEN held
               ELSE IF resp.op \in {"login", "refresh"}
               THEN [access_token |-> resp.result.value.access_token,
                     refresh_token |-> resp.result.value.refresh_token,
                     logged_out |-> FALSE]
               ELSE IF resp.op = "create_access_token"
               THEN [held EXCEPT !.access_token = resp.result.value,
                                 !.logged_out = FALSE]
               ELSE IF resp.op = "create_refresh_token"
               THEN [held EXCEPT !.refresh_token = resp.result.value,
                                 !.logged_out = FALSE]
               ELSE IF resp.op = "logout"
               THEN [held EXCEPT !.logged_out = (resp.token = held.access_token)]
               ELSE held
    /\ resp' = NoResp
    /\ UNCHANGED <<session, futures, users, nextId, pc, args, trace, result, calls, clock>>

----------------------------------------------------------------------------
(* The repository under the thread pool of test_concurrent_user_creation:  *)
(* every worker thread calls save on the one repository object, hence on   *)
(* the one session. The session keeps the objects added and not yet        *)
(* flushed (new, in the order added) and the objects of a flush that is    *)
(* under way (flushing); a flush spans round trips to the database, during *)
(* which other threads run. A Session is not made for use by two threads   *)
(* at once: what a commit entered during another thread's flush does       *)
(* depends on the SQLAlchemy release and on the instant, so every outcome  *)
(* is allowed: it is refused with InvalidRequestError, or it goes ahead    *)
(* without a flush of its own and ends the transaction the flush is        *)
(* writing in (raced), after which that flush completes or fails.          *)

Tasks == 0..(MaxTasks - 1)

Decimal == <<"0", "1", "2", "3", "4", "5", "6", "7", "8", "9">>
\* str(index)
Str(index) == <<Decimal[index + 1]>>

\* f'user{index}', f'user{index}@example.com', hash(f'Pass{index}')
TaskUsername(index) == <<"u", "s", "e", "r">> \o Str(index)
TaskEmail(index) ==
    TaskUsername(index) \o <<"@", "e", "x", "a", "m", "p", "l", "e", ".", "c", "o", "m">>
TaskPasswordHash(index) == Hash("s1", <<"P", "a", "s", "s">> \o Str(index))

Queued == [kind |-> "queued"]

SessionInit ==
    /\ session = [new |-> <<>>, flushing |-> <<>>, raced |-> FALSE]
    /\ futures = [i \in Tasks |-> Queued]

\* the future of the task a worker runs gets the outcome; the worker is free
EndSave(w, r) ==
    /\ futures' = [futures EXCEPT ![args[w].index] = r]
    /\ pc' = [pc EXCEPT ![w] = "idle"]

\* the INSERTs of one flush, in order: the rows and the sequence afterwards,
\* and the first error met
RECURSIVE InsertAll(_, _, _, _)
InsertAll(rows, id, batch, now) ==
    IF batch = <<>> THEN [rows |-> rows, nextId |-> id, err |-> Ok]
    ELSE LET index == Head(batch)
             err == RepoSaveError(rows, TaskUsername(index), TaskEmail(index))
         IN IF err # Ok THEN [rows |-> rows, nextId |-> id, err |-> err]
            ELSE InsertAll(rows \cup {NewRow(id, TaskUsername(index), TaskEmail(index),
                                             TaskPasswordHash(index), now)},
                           id + 1, Tail(batch), now)

InSeq(x, q) == \E k \in 1..Len(q) : q[k] = x
Without(q, batch) == SelectSeq(q, LAMBDA x : ~InSeq(x, batch))

\* a free worker thread takes the oldest queued task and enters
\* create_user(index), which builds the User object of save
Worker_CreateUser(w) ==
    /\ pc[w] = "idle"
    /\ \E index \in Tasks :
        /\ futures[index] = Queued
        /\ \A j \in Tasks : j < index => futures[j] # Queued
        /\ futures' = [futures EXCEPT ![index] = Pending]
        /\ args' = [args EXCEPT ![w] = [op |-> "save", index |-> index,
                                        username |-> TaskUsername(index),
                                        email |-> TaskEmail(index),
                                        password_hash |-> TaskPasswordHash(index)]]
    /\ pc' = [pc EXCEPT ![w] = "add"]
    /\ UNCHANGED <<session, users, nextId, trace, result, calls, clock, held, resp>>

\* save: self.session.add(user)
Save_Add(w) ==
    /\ pc[w] = "add"
    /\ session' = [session EXCEPT !.new = Append(@, args[w].index)]
    /\ pc' = [pc EXCEPT ![w] = "commit"]
    /\ UNCHANGED <<futures, users, nextId, args, trace, result, calls, clock, held, resp>>

ConcurrentUse == Exc("InvalidRequestError", "concurrent use of the Session")

\* save: self.session.commit() is entered. While a flush of the session is
\* under way the commit is refused or goes ahead without flushing; with
\* nothing to flush the commit is done at once; else the flush of everything
\* added so far begins.
Save_Commit(w) ==
    /\ pc[w] = "commit"
    /\ IF session.flushing # <<>>
       THEN \/ /\ EndSave(w, Raise(ConcurrentUse))
               /\ UNCHANGED session
            \/ /\ session' = [session EXCEPT !.raced = TRUE]
               /\ pc' = [pc EXCEPT ![w] = "refresh"]
               /\ UNCHANGED futures
       ELSE IF session.new = <<>>
       THEN /\ pc' = [pc EXCEPT ![w] = "refresh"]
            /\ UNCHANGED <<session, futures>>
       ELSE /\ session' = [session EXCEPT !.flushing = session.new]
            /\ pc' = [pc EXCEPT ![w] = "flush"]
            /\ UNCHANGED futures
    /\ UNCHANGED <<users, nextId, args, trace, result, calls, clock, held, resp>>

\* save: the flush of self.session.commit() completes. Its INSERTs are
\* committed together, or the first error rolls all of them back and the
\* objects of the flush leave the session. A flush whose transaction was
\* ended under it by another thread's commit may also fail as a whole.
Save_Flush(w) ==
    /\ pc[w] = "flush"
    /\ LET done == InsertAll(users, nextId, session.flushing, clock)
       IN /\ session' = [new |-> Without(session.new, session.flushing),
                         flushing |-> <<>>, raced |-> FALSE]
          /\ nextId' = done.nextId
          /\ \/ /\ done.err = Ok
                /\ users' = done.rows
                /\ pc' = [pc EXCEPT ![w] = "refresh"]
                /\ UNCHANGED futures
             \/ /\ done.err # Ok
                /\ UNCHANGED users
                /\ EndSave(w, Raise(done.err))
             \/ /\ session.raced
                /\ UNCHANGED users
                /\ EndSave(w, Raise(ConcurrentUse))
    /\ UNCHANGED <<args, trace, result, calls, clock, held, resp>>

\* save: self.session.refresh(user) and the UserDTO built from the row
Save_Refresh(w) ==
    /\ pc[w] = "refresh"
    /\ IF \E r \in users : r.username = args[w].username
       THEN EndSave(w, Return(ToDTO(CHOOSE r \in users : r.username = args[w].username)))
       ELSE EndSave(w, Raise(Exc("InvalidRequestError",
                                 "Instance is not persistent within this Session")))
    /\ UNCHANGED <<session, users, nextId, args, trace, result, calls, clock, held, resp>>

----------------------------------------------------------------------------
(* Specifications *)

UserInit ==
    /\ users = {}
    /\ nextId = 1
    /\ pc = [c \in Callers |-> "idle"]
    /\ args = [c \in Callers |-> NoCall]
    /\ trace = [c \in Callers |-> <<>>]
    /\ result = [c \in Callers |-> Pending]
    /\ calls = 0

TokenInit ==
    /\ clock = 0
    /\ held = [access_token |-> NoToken, refresh_token |-> NoToken, logged_out |-> FALSE]
    /\ resp = NoResp

Init == UserInit /\ TokenInit /\ SessionInit

\* the user service under concurrent callers, over the representative inputs
Next ==
    \E c \in Callers :
        \/ \E in \in CreateRequests : CallCreateUser(c, in[1], in[2], in[3])
        \/ CreateUser_Validate(c)
        \/ CreateUser_FindByEmail(c)
        \/ CreateUser_Hash(c)
        \/ CreateUser_Save(c)
        \/ \E e \in Emails, p \in Passwords : CallAuthenticate(c, e, p)
        \/ Authenticate(c)
        \/ \E id \in UserIds : CallGetUser(c, id)
        \/ GetUser(c)

Spec == Init /\ [][Next]_vars

\* one create_user call over the wide inputs: one argument ranges over its wide
\* set while the other two range over the representative ones
ValidateInputSets ==
    (WideUsernames \X OtherEmails \X OtherPasswords)
        \cup (OtherUsernames \X WideEmails \X OtherPasswords)
        \cup (OtherUsernames \X OtherEmails \X WidePasswords)

\* the repository the call meets: it holds one earlier registration
StoredBefore == {NewRow(1, janedoe, john_example_com, Hash("s1", SecurePass123), 0)}

InitValidate ==
    /\ TokenInit
    /\ SessionInit
    /\ users = StoredBefore
    /\ nextId = 2
    /\ \E in \in ValidateInputSets :
        /\ pc = [c \in Callers |-> IF c = 1 THEN "validate" ELSE "idle"]
        /\ args = [c \in Callers |->
                     IF c = 1 THEN [op |-> "create_user", username |-> in[1],
                                    email |-> in[2], password |-> in[3]]
                     ELSE NoCall]
    /\ trace = [c \in Callers |-> <<>>]
    /\ result = [c \in Callers |-> Pending]
    /\ calls = 1

NextValidate ==
    \E c \in Callers :
        \/ CreateUser_Validate(c)
        \/ CreateUser_FindByEmail(c)
        \/ CreateUser_Hash(c)
        \/ CreateUser_Save(c)

SpecValidate == InitValidate /\ [][NextValidate]_vars

\* the token service with one client and the clock
NextToken ==
    \/ Tick
    \/ Login
    \/ \E X \in Subjects : IssueAccessToken(X)
    \/ \E X \in Subjects : IssueRefreshToken(X)
    \/ \E token \in Presentable : Protected(token)
    \/ \E token \in Presentable : Logout(token)
    \/ \E token \in Presentable : Refresh(token)
    \/ Deliver

SpecToken == Init /\ [][NextToken]_vars

\* the worker threads of the pool, each running save on the shared repository
NextSave ==
    \E w \in Callers :
        \/ Worker_CreateUser(w)
        \/ Save_Add(w)
        \/ Save_Commit(w)
        \/ Save_Flush(w)
        \/ Save_Refresh(w)

SpecSave == Init /\ [][NextSave]_vars

----------------------------------------------------------------------------
(* Properties of the registration service *)

Range(s) == {s[i] : i \in 1..Len(s)}
Whitespace == {" ", "\n"}

Creating(c) == args[c].op = "create_user"
Validated(c) == Creating(c) /\ pc[c] # "validate"
Raised(c, type) == result[c].kind = "raise" /\ result[c].exc.type = type
ValidationErrors == {"InvalidUsernameError", "InvalidEmailError", "WeakPasswordError"}
AllReturned(tr) == \A i \in 1..Len(tr) : tr[i].ret.kind = "return"
Count(tr, fn) == Cardinality({i \in 1..Len(tr) : tr[i].fn = fn})

\* the rule for usernames as documented: 3 to 30 characters of [A-Za-z0-9_]
BadUsername(u) ==
    \/ Len(u) < USERNAME_MIN
    \/ Len(u) > USERNAME_MAX
    \/ Range(u) \ WordClass # {}

\* the rule for passwords as documented
WeakPassword(p) ==
    \/ Len(p) < PASSWORD_MIN
    \/ Range(p) \cap UpperChars = {}
    \/ Range(p) \cap LowerChars = {}
    \/ Range(p) \cap DigitChars = {}

\* the emails the documented shape excludes
BadEmail(e) ==
    \/ e = <<>>
    \/ "@" \notin Range(e)
    \/ e[1] = "@"
    \/ Range(e) \cap Whitespace # {}
    \/ ~\E at \in 1..Len(e) : \E dot \in (at + 1)..Len(e) :
          /\ e[at] = "@"
          /\ e[dot] = "."
          /\ Len(e) - dot >= TLD_MIN
          /\ \A k \in (dot + 1)..Len(e) : e[k] \in LetterClass

\* C1: every username shorter than 3, longer than 30 or holding a character
\* outside [A-Za-z0-9_] (whitespace and a trailing newline included) makes
\* create_user fail with InvalidUsernameError, whatever email and password are.
C1_BadUsernameRejected ==
    \A c \in Callers :
        (Validated(c) /\ BadUsername(args[c].username))
            => Raised(c, "InvalidUsernameError")

\* C2: with a username and an email that pass, create_user fails with
\* WeakPasswordError exactly for the passwords shorter than 12 or lacking an
\* uppercase letter, a lowercase letter or a digit; SecurePass123 passes.
C2_WeakPasswordExactly ==
    \A c \in Callers :
        (/\ Validated(c)
         /\ ValidateUsername(args[c].username) = Ok
         /\ ValidateEmail(args[c].email) = Ok)
            => /\ Raised(c, "WeakPasswordError") <=> WeakPassword(args[c].password)
               /\ args[c].password = SecurePass123 => ~Raised(c, "WeakPasswordError")

C2_Witness ==
    \E c \in Callers :
        /\ Validated(c)
        /\ ValidateUsername(args[c].username) = Ok
        /\ ValidateEmail(args[c].email) = Ok
        /\ Len(args[c].password) >= PASSWORD_MIN
        /\ Range(args[c].password) \cap UpperChars # {}
        /\ Range(args[c].password) \cap LowerChars # {}
        /\ Range(args[c].password) \cap DigitChars = {}
        /\ Raised(c, "WeakPasswordError")

\* C3: with a username that passes, create_user fails with InvalidEmailError
\* for every email that is empty, has no '@', has an empty local part, holds
\* whitespace anywhere, or whose domain lacks a dot followed by a top-level
\* label of at least 2 letters.
C3_BadEmailRejected ==
    \A c \in Callers :
        (/\ Validated(c)
         /\ ValidateUsername(args[c].username) = Ok
         /\ BadEmail(args[c].email))
            => Raised(c, "InvalidEmailError")

\* C4: create_user validates username, then email, then password and reports
\* the first failure only: a username that fails yields its
\* InvalidUsernameError whatever email and password are, and an email that
\* fails after a passing username yields its InvalidEmailError whatever the
\* password is.
C4_FirstFailureWins ==
    \A c \in Callers :
        Validated(c) =>
            /\ ValidateUsername(args[c].username) # Ok
                 => /\ result[c] = Raise(ValidateUsername(args[c].username))
                    /\ Raised(c, "InvalidUsernameError")
            /\ (ValidateUsername(args[c].username) = Ok
                /\ ValidateEmail(args[c].email) # Ok)
                 => /\ result[c] = Raise(ValidateEmail(args[c].email))
                    /\ Raised(c, "InvalidEmailError")

C4_Witness ==
    \E c \in Callers :
        /\ Validated(c)
        /\ ValidateUsername(args[c].username) # Ok
        /\ ValidateEmail(args[c].email) # Ok
        /\ ValidatePassword(args[c].password) # Ok
        /\ Raised(c, "InvalidUsernameError")

\* C5: when create_user fails with InvalidUsernameError, InvalidEmailError or
\* WeakPasswordError, that call has invoked no collaborator (find_by_email,
\* hash and save zero times each), and the step in which it fails leaves the
\* repository as it was.
C5_NoCollaboratorCalled ==
    \A c \in Callers :
        (Creating(c) /\ \E t \in ValidationErrors : Raised(c, t))
            => /\ trace[c] = <<>>
               /\ Count(trace[c], "find_by_email") = 0
               /\ Count(trace[c], "hash") = 0
               /\ Count(trace[c], "save") = 0

C5_FailingStepWritesNothing ==
    \A c \in Callers :
        (pc[c] = "validate" /\ pc'[c] = "done")
            => /\ \E t \in ValidationErrors :
                    result'[c].kind = "raise" /\ result'[c].exc.type = t
               /\ users' = users
               /\ nextId' = nextId

C5_ValidationFailureTouchesNothing ==
    []C5_NoCollaboratorCalled /\ [][C5_FailingStepWritesNothing]_vars

C5_Witness ==
    \E c \in Callers :
        /\ Creating(c)
        /\ Raised(c, "WeakPasswordError")
        /\ users # {}

\* C6: a create_user call whose inputs pass and whose find_by_email returns
\* absent, with hash and save returning, has called hash exactly once with the
\* plaintext, then save exactly once with the username, the email and the value
\* hash returned (which is never the plaintext), and returns save's record.
C6_HashThenSaveOnce ==
    \A c \in Callers :
        (/\ Creating(c)
         /\ pc[c] = "done"
         /\ trace[c] # <<>>
         /\ AllReturned(trace[c])
         /\ trace[c][1].ret = Return(None))
            => /\ Len(trace[c]) = 3
               /\ trace[c][1].fn = "find_by_email"
               /\ trace[c][2].fn = "hash"
               /\ trace[c][2].arg = <<args[c].password>>
               /\ trace[c][3].fn = "save"
               /\ trace[c][3].arg = <<args[c].username, args[c].email,
                                       trace[c][2].ret.value>>
               /\ trace[c][3].arg[3] # args[c].password
               /\ Count(trace[c], "hash") = 1
               /\ Count(trace[c], "save") = 1
               /\ result[c] = trace[c][3].ret

C6_Witness ==
    \E c \in Callers :
        /\ Creating(c)
        /\ pc[c] = "done"
        /\ Len(trace[c]) = 3
        /\ result[c].kind = "return"
        /\ result[c].value.username = args[c].username
        /\ \E r \in users : r.id = result[c].value.id /\ r.password_hash # args[c].password

\* C7: when find_by_email returns an existing record to a create_user call
\* whose inputs pass, the call fails with UserAlreadyExistsError, neither hash
\* nor save is called, and the repository is left as it was.
C7_ExistingEmailRefused ==
    \A c \in Callers :
        (/\ Creating(c)
         /\ trace[c] # <<>>
         /\ trace[c][1].ret.kind = "return"
         /\ trace[c][1].ret.value # None)
            => /\ pc[c] = "done"
               /\ Raised(c, "UserAlreadyExistsError")
               /\ Len(trace[c]) = 1
               /\ Count(trace[c], "hash") = 0
               /\ Count(trace[c], "save") = 0

C7_LookupStepWritesNothing ==
    \A c \in Callers :
        (pc[c] = "find_by_email" /\ pc'[c] # pc[c])
            => users' = users /\ nextId' = nextId

C7_AlreadyExists ==
    []C7_ExistingEmailRefused /\ [][C7_LookupStepWritesNothing]_vars

C7_Witness ==
    \E c \in Callers :
        /\ Creating(c)
        /\ Raised(c, "UserAlreadyExistsError")
        /\ trace[c][1].ret.value.email = args[c].email
        /\ trace[c][1].ret.value.username # args[c].username

\* C8: get_user(id) returns exactly what find_by_id(id) returns and
\* authenticate(email, password) exactly what find_by_email(email) returns:
\* None when the repository has no such row, else the row's record with no
\* field changed; neither writes to the repository.
C8_ResultIsLookup ==
    \A c \in Callers :
        (pc[c] = "done" /\ args[c].op \in {"get_user", "authenticate"})
            => /\ Len(trace[c]) = 1
               /\ result[c] = trace[c][1].ret
               /\ args[c].op = "get_user"
                    => trace[c][1].fn = "find_by_id"
                       /\ trace[c][1].arg = <<args[c].user_id>>
               /\ args[c].op = "authenticate"
                    => trace[c][1].fn = "find_by_email"
                       /\ trace[c][1].arg = <<args[c].email>>

C8_LookupStep ==
    \A c \in Callers :
        (pc[c] \in {"get_find", "auth_find"} /\ pc'[c] = "done")
            => /\ users' = users
               /\ nextId' = nextId
               /\ result'[c].kind = "return"
                    => result'[c].value =
                         IF args[c].op = "get_user"
                         THEN RepoFindById(users, args[c].user_id)
                         ELSE RepoFindByEmail(users, args[c].email)

C8_Passthrough == []C8_ResultIsLookup /\ [][C8_LookupStep]_vars

C8_Witness ==
    \E c \in Callers :
        /\ pc[c] = "done"
        /\ args[c].op = "authenticate"
        /\ result[c].kind = "return"
        /\ result[c].value # None
        /\ result[c].value.email = args[c].email
        /\ args[c].password = short

----------------------------------------------------------------------------
(* Properties of the token service *)

Expired401 == Raise(HTTPException(401, "Token has expired"))

\* the token is one that create_access_token(X) produces for some subject X
FromCreateAccessToken(token) ==
    /\ token.fmt = "jwt"
    /\ \E X \in Subjects : \E t1 \in Instants : \E t2 \in Later(t1) :
          token = CreateAccessToken(X, t1, t2)

\* the token carries a signature made with the process-wide secret
CorrectlySigned(token) ==
    /\ token.fmt = "jwt"
    /\ token.header.alg = ALGORITHM
    /\ token.sig = Sign(SECRET_KEY, ALGORITHM, token.payload)

Verifications == {"get_current_user", "logout", "refresh"}

\* C9: for every subject X, an access token from create_access_token(X) that
\* is verified as an access token strictly before its expiry yields exactly X
\* as the authenticated user id.
C9_AccessTokenRoundTrip ==
    (/\ resp.op = "get_current_user"
     /\ FromCreateAccessToken(resp.token)
     /\ resp.at < resp.token.payload.exp)
        => resp.result = Return(resp.token.payload.sub)

C9_Witness ==
    /\ resp.op = "get_current_user"
    /\ FromCreateAccessToken(resp.token)
    /\ resp.token.payload.sub = "user_456"
    /\ resp.at = resp.token.payload.exp - 1
    /\ resp.result = Return("user_456")

\* C10: once the clock has passed the expiry a correctly signed token embeds,
\* every verification of it fails with 401 'Token has expired', and a token
\* that has expired stays expired at every later time.
C10_ExpiredIsRefused ==
    (/\ resp.op \in Verifications
     /\ CorrectlySigned(resp.token)
     /\ resp.at > resp.token.payload.exp)
        => resp.result = Expired401

C10_ExpiredStaysExpired ==
    \A token \in OwnTokens :
        DecodeToken(token, clock) = Expired401
            => DecodeToken(token, clock') = Expired401

C10_ExpiryIsFinal == []C10_ExpiredIsRefused /\ [][C10_ExpiredStaysExpired]_vars

C10_Witness ==
    /\ resp.op = "refresh"
    /\ CorrectlySigned(resp.token)
    /\ resp.token.payload.type = "refresh"
    /\ resp.at > resp.token.payload.exp
    /\ resp.result = Expired401

InvalidType401 == Raise(HTTPException(401, "Invalid token type"))
Invalid401 == Raise(HTTPException(401, "Could not validate credentials"))

\* the token is correctly signed, of the given kind, and presented before its
\* expiry
ValidAt(token, kind, at) ==
    /\ CorrectlySigned(token)
    /\ token.payload.type = kind
    /\ at < token.payload.exp

\* C11: a valid unexpired refresh token presented to get_current_user (directly
\* or through logout) is refused with 401 'Invalid token type', and a valid
\* unexpired access token presented to the refresh route is refused the same
\* way, the answer carrying no token.
C11_KindMustMatch ==
    /\ (resp.op \in {"get_current_user", "logout"}
            /\ ValidAt(resp.token, "refresh", resp.at))
         => resp.result = InvalidType401
    /\ (resp.op = "refresh" /\ ValidAt(resp.token, "access", resp.at))
         => resp.result = InvalidType401

C11_Witness ==
    /\ resp.op = "refresh"
    /\ ValidAt(resp.token, "access", resp.at)
    /\ resp.token = held.access_token
    /\ held.refresh_token # NoToken
    /\ resp.result = InvalidType401

\* C12: a token whose signature is bad fails as Invalid (401 'Could not
\* validate credentials') even when it is also expired, and a correctly signed
\* expired token of the wrong kind fails as Expired, not as a kind mismatch.
C12_SignatureThenExpiryThenKind ==
    /\ (resp.op \in Verifications
            /\ resp.token.fmt = "jwt"
            /\ ~CorrectlySigned(resp.token)
            /\ resp.token.payload.exp < resp.at)
         => resp.result = Invalid401
    /\ (resp.op = "refresh"
            /\ CorrectlySigned(resp.token)
            /\ resp.token.payload.type = "access"
            /\ resp.token.payload.exp < resp.at)
         => resp.result = Expired401
    /\ (resp.op \in {"get_current_user", "logout"}
            /\ CorrectlySigned(resp.token)
            /\ resp.token.payload.type = "refresh"
            /\ resp.token.payload.exp < resp.at)
         => resp.result = Expired401

\* C13: a verification of a token that is malformed or not signed with the
\* process-wide secret ends with 401 'Could not validate credentials'.
C13_BadTokenIsInvalid ==
    (resp.op \in Verifications /\ ~CorrectlySigned(resp.token))
        => resp.result = Invalid401

\* C14: the refresh route, given a valid unexpired refresh token for subject
\* X, answers with a correctly signed access token for X and with the very
\* token that was presented as refresh_token; the client that takes the answer
\* still holds that refresh token.
C14_RefreshAnswer ==
    (resp.op = "refresh" /\ ValidAt(resp.token, "refresh", resp.at))
        => /\ resp.result.kind = "return"
           /\ CorrectlySigned(resp.result.value.access_token)
           /\ resp.result.value.access_token.payload.sub = resp.token.payload.sub
           /\ resp.result.value.access_token.payload.type = "access"
           /\ resp.result.value.refresh_token = resp.token

C14_RefreshTokenKept ==
    (resp.op = "refresh" /\ resp.result.kind = "return" /\ resp' = NoResp)
        => held'.refresh_token = resp.token

C14_RefreshKeepsRefreshToken == []C14_RefreshAnswer /\ [][C14_RefreshTokenKept]_vars

C14_Witness ==
    /\ resp.op = "refresh"
    /\ resp.token = held.refresh_token
    /\ resp.token.payload.sub = "user_456"
    /\ resp.at = resp.token.payload.exp - 1
    /\ held.access_token # NoToken
    /\ held.access_token.payload.exp > AccessLifetime + MaxSkew
    /\ resp.result.kind = "return"
    /\ resp.result.value.refresh_token = resp.token
    /\ resp.result.value.access_token.payload.sub = "user_456"

----------------------------------------------------------------------------
(* Properties of the registration service: failures, uniqueness, concurrency *)

RegistrationErrors == ValidationErrors \cup {"UserAlreadyExistsError"}
CollaboratorFns == {"find_by_email", "find_by_id", "hash", "save"}

\* no collaborator of the call was unavailable
NoOutage(c) ==
    \A i \in 1..Len(trace[c]) :
        trace[c][i].ret.kind = "raise" => trace[c][i].ret.exc # Unavailable

\* C15: when a collaborator raises during create_user, authenticate or
\* get_user, that invocation is the last one of the call, the call ends with the
\* very exception raised, which is none of the four registration errors, and no
\* collaborator operation was invoked more than once.
C15_CollaboratorFailurePropagates ==
    \A c \in Callers :
        /\ \A i \in 1..Len(trace[c]) :
              trace[c][i].ret.kind = "raise"
                  => /\ i = Len(trace[c])
                     /\ pc[c] = "done"
                     /\ result[c] = trace[c][i].ret
                     /\ result[c].exc.type \notin RegistrationErrors
        /\ \A fn \in CollaboratorFns : Count(trace[c], fn) <= 1

C15_Witness ==
    \E c \in Callers :
        /\ Creating(c)
        /\ pc[c] = "done"
        /\ Len(trace[c]) = 2
        /\ trace[c][2].fn = "hash"
        /\ trace[c][2].ret = Raise(Unavailable)
        /\ result[c] = Raise(Unavailable)
        /\ users = {}

\* C16: no two stored records share an email or a username, and a save whose
\* email is that of a stored record raises IntegrityError (when the database
\* is reached at all) and leaves the table as it was.
C16_Unique ==
    \A r1, r2 \in users :
        (r1.email = r2.email \/ r1.username = r2.username) => r1 = r2

C16_DuplicateSaveRefused ==
    \A c \in Callers :
        (/\ pc[c] = "save"
         /\ pc'[c] = "done"
         /\ \E r \in users : r.email = args[c].email)
            => /\ users' = users
               /\ nextId' = nextId
               /\ result'[c].kind = "raise"
               /\ result'[c].exc.type \in {"IntegrityError", "OperationalError"}
               /\ result'[c] # Raise(Unavailable) => result'[c].exc.type = "IntegrityError"

C16_RepositoryKeepsUnique == []C16_Unique /\ [][C16_DuplicateSaveRefused]_vars

C16_Witness ==
    \E c \in Callers :
        /\ Creating(c)
        /\ pc[c] = "done"
        /\ Len(trace[c]) = 3
        /\ trace[c][3].fn = "save"
        /\ Raised(c, "IntegrityError")
        /\ \E r \in users : r.email = args[c].email /\ r.username # args[c].username

\* a finished create_user call that carries the email and whose inputs were
\* accepted (it went on to the lookup)
CarriesEmail(c, e) ==
    /\ Creating(c)
    /\ pc[c] = "done"
    /\ args[c].email = e
    /\ trace[c] # <<>>

\* every stored row with the email or with a username of such a call was
\* stored by such a call
StoredByGroup(e) ==
    \A r \in users :
        (r.email = e \/ \E c \in Callers : CarriesEmail(c, e) /\ r.username = args[c].username)
            => \E c \in Callers : CarriesEmail(c, e) /\ result[c] = Return(ToDTO(r))

\* C17: of the create_user calls that carry the same acceptable email, however
\* their find_by_email, hash and save steps interleave, at most one record with
\* that email is stored, at most one call gets a record and every other call
\* gets a failure; exactly one gets a record once two or more such calls have
\* finished with no collaborator unavailable and nobody else holding the email
\* or their usernames.
C17_OneWinner ==
    \A e \in Emails :
        /\ \A r1, r2 \in users : (r1.email = e /\ r2.email = e) => r1 = r2
        /\ \A c, d \in Callers :
              (c # d /\ CarriesEmail(c, e) /\ CarriesEmail(d, e))
                  => ~(result[c].kind = "return" /\ result[d].kind = "return")
        /\ \A c \in Callers :
              (CarriesEmail(c, e) /\ result[c].kind # "return") => result[c].kind = "raise"
        /\ (/\ \E c, d \in Callers : c # d /\ CarriesEmail(c, e) /\ CarriesEmail(d, e)
            /\ \A c \in Callers : CarriesEmail(c, e) => NoOutage(c)
            /\ StoredByGroup(e))
              => \E c \in Callers : CarriesEmail(c, e) /\ result[c].kind = "return"

C17_Witness ==
    \E c, d \in Callers :
        /\ c # d
        /\ CarriesEmail(c, john_example_com)
        /\ CarriesEmail(d, john_example_com)
        /\ Len(trace[c]) = 3
        /\ Len(trace[d]) = 3
        /\ trace[c][1].ret = Return(None)
        /\ trace[d][1].ret = Return(None)
        /\ result[c].kind = "return"
        /\ Raised(d, "IntegrityError")
        /\ Cardinality(users) = 1

\* C19: authenticate invokes nothing but find_by_email(email): the hasher is
\* never called and the password is handed to no collaborator; the record of a
\* stored email is returned whatever the password is, and two calls with the
\* same email whose lookups gave the same answer end alike.
C19_PasswordNeverLookedAt ==
    /\ \A c \in Callers :
          (args[c].op = "authenticate")
              => /\ Count(trace[c], "hash") = 0
                 /\ Count(trace[c], "verify") = 0
                 /\ \A i \in 1..Len(trace[c]) :
                       trace[c][i].fn = "find_by_email" /\ trace[c][i].arg = <<args[c].email>>
    /\ \A c, d \in Callers :
          (/\ args[c].op = "authenticate" /\ pc[c] = "done"
           /\ args[d].op = "authenticate" /\ pc[d] = "done"
           /\ args[c].email = args[d].email
           /\ trace[c][1].ret = trace[d][1].ret)
              => result[c] = result[d]

C19_StoredEmailSuffices ==
    \A c \in Callers :
        (pc[c] = "auth_find" /\ pc'[c] = "done" /\ result'[c].kind = "return")
            => \A r \in users : r.email = args[c].email => result'[c].value = ToDTO(r)

C19_AnyPasswordAccepted == []C19_PasswordNeverLookedAt /\ [][C19_StoredEmailSuffices]_vars

C19_Witness ==
    \E c \in Callers :
        /\ pc[c] = "done"
        /\ args[c].op = "authenticate"
        /\ args[c].password = <<>>
        /\ result[c].kind = "return"
        /\ \E r \in users :
              /\ result[c].value = ToDTO(r)
              /\ r.email = args[c].email
              /\ \A salt \in Salts : r.password_hash # Hash(salt, args[c].password)

----------------------------------------------------------------------------
(* Properties of the repository under the thread pool *)

AllTasksDone == \A i \in Tasks : futures[i].kind \in {"return", "raise"}

\* C18: once the saves of all N tasks, with pairwise distinct usernames and
\* emails, have ended, every one of them has returned its record and exactly N
\* rows are stored.
C18_AllDistinctSavesSucceed ==
    AllTasksDone
        => /\ \A i \in Tasks : futures[i].kind = "return"
           /\ Cardinality(users) = MaxTasks

----------------------------------------------------------------------------
(* Properties of logout *)

\* C20: the logout route changes nothing but its answer, and once a client
\* has logged out with the access token it holds, that token is still accepted
\* by the protected routes and by logout, and the refresh token it holds by the
\* refresh route, at every time before the token's own expiry.
C20_StillAccepted ==
    /\ (/\ held.logged_out
        /\ resp.op \in {"get_current_user", "logout"}
        /\ resp.token = held.access_token
        /\ resp.at < resp.token.payload.exp)
          => resp.result = IF resp.op = "logout" THEN Return("Successfully logged out")
                           ELSE Return(resp.token.payload.sub)
    /\ (/\ held.logged_out
        /\ resp.op = "refresh"
        /\ resp.token = held.refresh_token
        /\ resp.token # NoToken
        /\ resp.at < resp.token.payload.exp)
          => /\ resp.result.kind = "return"
             /\ resp.result.value.refresh_token = resp.token
             /\ resp.result.value.access_token.payload.sub = resp.token.payload.sub

C20_LogoutStep ==
    (resp = NoResp /\ resp'.op = "logout")
        => UNCHANGED <<users, nextId, pc, args, trace, result, calls, clock, held,
                       session, futures>>

C20_LogoutRevokesNothing == []C20_StillAccepted /\ [][C20_LogoutStep]_vars

C20_Witness ==
    /\ held.logged_out
    /\ resp.op = "get_current_user"
    /\ resp.token = held.access_token
    /\ resp.at = resp.token.payload.exp - 1
    /\ resp.result = Return(resp.token.payload.sub)

C20_WitnessRefresh ==
    /\ held.logged_out
    /\ resp.op = "refresh"
    /\ resp.token = held.refresh_token
    /\ resp.token # NoToken
    /\ resp.at > held.access_token.payload.exp
    /\ resp.result.kind = "return"

----------------------------------------------------------------------------
(* Properties of the tokens issued *)

Issuing == {"login", "refresh", "create_access_token", "create_refresh_token"}

\* the token is a signed JWT of the kind that embeds exactly subject, kind,
\* issued-at and expiry; its expiry lies the given number of seconds after an
\* instant of the request that began at `at`, and its issued-at, read from the
\* clock after that instant, lies before the expiry
IssuedAs(token, kind, lifetime, at) ==
    /\ CorrectlySigned(token)
    /\ DOMAIN token.payload = {"sub", "type", "iat", "exp"}
    /\ token.payload.sub \in Subjects
    /\ token.payload.type = kind
    /\ at <= token.payload.exp - lifetime
    /\ token.payload.exp - lifetime <= token.payload.iat
    /\ token.payload.iat <= clock
    /\ token.payload.iat < token.payload.exp

\* C21: every token issued is signed and embeds subject, kind, issued-at and
\* expiry, the expiry later than the issued-at; an access token is of kind
\* 'access' and expires 900 seconds after the clock reading of its issuance, a
\* refresh token is of kind 'refresh' and expires 604800 seconds after it; of
\* the two tokens of a login the access token expires first, and expires_in is
\* 900, the access lifetime.
C21_IssuedTokens ==
    (resp.op \in Issuing /\ resp.result.kind = "return")
        => LET v == resp.result.value
           IN /\ resp.op = "login"
                   => /\ IssuedAs(v.access_token, "access", 900, resp.at)
                      /\ v.access_token.payload.exp = resp.at + 900
                      /\ IssuedAs(v.refresh_token, "refresh", 604800, resp.at)
                      /\ v.access_token.payload.exp < v.refresh_token.payload.exp
                      /\ v.expires_in = 900
                      /\ v.expires_in = AccessLifetime
              /\ resp.op = "refresh"
                   => /\ IssuedAs(v.access_token, "access", 900, resp.at)
                      /\ v.expires_in = 900
              /\ resp.op = "create_access_token"
                   => /\ IssuedAs(v, "access", 900, resp.at)
                      /\ v.payload.exp = resp.at + 900
              /\ resp.op = "create_refresh_token"
                   => /\ IssuedAs(v, "refresh", 604800, resp.at)
                      /\ v.payload.exp = resp.at + 604800

C21_Witness ==
    /\ resp.op = "login"
    /\ resp.result.kind = "return"
    /\ resp.at > 0
    /\ resp.result.value.access_token.payload.exp = resp.at + 900
    /\ resp.result.value.access_token.payload.iat = resp.at + 1
    /\ resp.result.value.refresh_token.payload.type = "refresh"
    /\ resp.result.value.refresh_token.payload.exp
          >= resp.result.value.access_token.payload.exp + 603900

----------------------------------------------------------------------------
(* Properties of the reasons reported *)

HasUpper(p) == \E i \in 1..Len(p) : IsUpper(p[i])
HasLower(p) == \E i \in 1..Len(p) : IsLower(p[i])
HasDigit(p) == \E i \in 1..Len(p) : IsDigit(p[i])

Weak(reason) == Raise(Exc("WeakPasswordError", reason))

\* C22: a create_user call whose username and email pass reports a weak
\* password with the reason of the first rule broken in the order length,
\* uppercase, lowercase, digit: shorter than 12 gives the length reason whatever
\* else is missing, 12 or more without uppercase gives the uppercase reason
\* also when the digit is missing too; an empty username is reported as
\* required, not as ill-formed.
C22_FirstReasonReported ==
    \A c \in Callers :
        (Creating(c) /\ pc[c] # "validate")
            => LET p == args[c].password
                   reaches == /\ ValidateUsername(args[c].username) = Ok
                              /\ ValidateEmail(args[c].email) = Ok
               IN /\ args[c].username = <<>>
                       => result[c] = Raise(Exc("InvalidUsernameError", "Username is required"))
                  /\ (reaches /\ Len(p) < 12)
                       => result[c] = Weak("Password must be at least 12 characters")
                  /\ (reaches /\ Len(p) >= 12 /\ ~HasUpper(p))
                       => result[c] = Weak("Password must contain at least one uppercase letter")
                  /\ (reaches /\ Len(p) >= 12 /\ HasUpper(p) /\ ~HasLower(p))
                       => result[c] = Weak("Password must contain at least one lowercase letter")
                  /\ (reaches /\ Len(p) >= 12 /\ HasUpper(p) /\ HasLower(p) /\ ~HasDigit(p))
                       => result[c] = Weak("Password must contain at least one number")

C22_Witness ==
    \E c \in Callers :
        /\ Creating(c)
        /\ pc[c] = "done"
        /\ Len(args[c].password) >= 12
        /\ ~HasUpper(args[c].password)
        /\ ~HasDigit(args[c].password)
        /\ HasLower(args[c].password)
        /\ result[c] = Weak("Password must contain at least one uppercase letter")

C22_WitnessRequired ==
    \E c \in Callers :
        /\ Creating(c)
        /\ args[c].username = <<>>
        /\ args[c].password = short
        /\ result[c] = Raise(Exc("InvalidUsernameError", "Username is required"))

----------------------------------------------------------------------------
(* Properties of a registration once made *)

AlreadyExists ==
    Raise(Exc("UserAlreadyExistsError", "User with email {email} already exists"))

\* the record a create_user call returned is that of a stored row with the
\* call's username and email
C23_ReturnedIsStored ==
    \A c \in Callers :
        (Creating(c) /\ pc[c] = "done" /\ result[c].kind = "return")
            => \E r \in users :
                  /\ result[c].value = ToDTO(r)
                  /\ r.username = args[c].username
                  /\ r.email = args[c].email

\* every stored row stays as it is, and a lookup that the repository answers
\* finds it: create_user with its email stops with UserAlreadyExistsError and
\* writes nothing, authenticate with its email and get_user with its id return
\* its record
C23_StoredStaysFound ==
    \A r \in users :
        /\ r \in users'
        /\ \A c \in Callers :
              /\ (/\ pc[c] = "find_by_email"
                  /\ pc'[c] # "find_by_email"
                  /\ args[c].email = r.email
                  /\ trace'[c][1].ret.kind = "return")
                    => /\ result'[c] = AlreadyExists
                       /\ pc'[c] = "done"
                       /\ users' = users
              /\ (/\ pc[c] = "auth_find"
                  /\ pc'[c] = "done"
                  /\ args[c].email = r.email
                  /\ result'[c].kind = "return")
                    => result'[c] = Return(ToDTO(r))
              /\ (/\ pc[c] = "get_find"
                  /\ pc'[c] = "done"
                  /\ args[c].user_id = r.id
                  /\ result'[c].kind = "return")
                    => result'[c] = Return(ToDTO(r))

\* C23: once create_user has succeeded with record r, r's row is stored and
\* stays stored unchanged; from then on every create_user whose lookup the
\* repository answers fails with UserAlreadyExistsError for r's email and adds
\* no record, authenticate with r's email returns r whatever the password, and
\* get_user(r.id) returns r.
C23_RegistrationIsFinal == []C23_ReturnedIsStored /\ [][C23_StoredStaysFound]_vars

C23_Witness ==
    \E c, d \in Callers :
        /\ c # d
        /\ Creating(d) /\ pc[d] = "done" /\ result[d].kind = "return"
        /\ Creating(c) /\ pc[c] = "done"
        /\ args[c].email = args[d].email
        /\ args[c].username # args[d].username
        /\ trace[c] = <<Invocation("find_by_email", <<args[c].email>>, result[d])>>
        /\ result[c] = AlreadyExists
        /\ Cardinality(users) = 1

C23_WitnessAuthenticate ==
    \E c, d \in Callers :
        /\ c # d
        /\ Creating(d) /\ pc[d] = "done" /\ result[d].kind = "return"
        /\ args[c].op = "authenticate" /\ pc[c] = "done"
        /\ args[c].email = args[d].email
        /\ args[c].password = short
        /\ result[c] = result[d]

C23_WitnessGetUser ==
    \E c, d \in Callers :
        /\ c # d
        /\ Creating(d) /\ pc[d] = "done" /\ result[d].kind = "return"
        /\ args[c].op = "get_user" /\ pc[c] = "done"
        /\ args[c].user_id = result[d].value.id
        /\ result[c] = result[d]

----------------------------------------------------------------------------
(* Properties of the existence check *)

EmailStored(e) == \E r \in users : r.email = e
UsernameStored(u) == \E r \in users : r.username = u

\* a create_user call is refused with UserAlreadyExistsError only for an email
\* its lookup found
C24_RefusedForEmailOnly ==
    \A c \in Callers :
        (Creating(c) /\ Raised(c, "UserAlreadyExistsError"))
            => /\ Len(trace[c]) = 1
               /\ trace[c][1].ret.kind = "return"
               /\ trace[c][1].ret.value # None
               /\ trace[c][1].ret.value.email = args[c].email

\* with the email not stored, the lookup step goes on to hash although the
\* username is stored, and the save step of a stored username raises the
\* repository's error, which is the call's result, and inserts nothing
C24_UsernameLeftToRepository ==
    \A c \in Callers :
        /\ (/\ pc[c] = "find_by_email"
            /\ pc'[c] # "find_by_email"
            /\ ~EmailStored(args[c].email)
            /\ trace'[c][1].ret.kind = "return")
              => pc'[c] = "hash" /\ result'[c] = Pending
        /\ (/\ pc[c] = "save"
            /\ pc'[c] = "done"
            /\ UsernameStored(args[c].username)
            /\ ~EmailStored(args[c].email))
              => /\ users' = users
                 /\ result'[c].kind = "raise"
                 /\ result'[c].exc.type \notin RegistrationErrors
                 /\ result'[c] = trace'[c][3].ret
                 /\ result'[c] # Raise(Unavailable) => result'[c].exc.type = "IntegrityError"

\* C24: create_user looks for the email only. With an acceptable email that is
\* not stored and a username that is, it does not raise UserAlreadyExistsError
\* but goes on to hash and save; the repository refuses the duplicate
\* username and the caller receives the repository's error.
C24_ExistenceCheckByEmailOnly ==
    []C24_RefusedForEmailOnly /\ [][C24_UsernameLeftToRepository]_vars

C24_Witness ==
    \E c \in Callers :
        /\ Creating(c)
        /\ pc[c] = "done"
        /\ Len(trace[c]) = 3
        /\ trace[c][1].ret = Return(None)
        /\ trace[c][2].fn = "hash"
        /\ trace[c][3].fn = "save"
        /\ Raised(c, "IntegrityError")
        /\ UsernameStored(args[c].username)
        /\ ~EmailStored(args[c].email)

====
